---- MODULE Spec2Model ----
(***************************************************************************)
(* Model of the self-correcting retrieval-augmented-generation graph of    *)
(* graph_rag.py: the five nodes, the conditional edge after grading and    *)
(* the compiled graph that sequences them.  One run of the compiled graph  *)
(* is modelled, started from the initial state that app.py and the         *)
(* __main__ block submit ({"question": ..., "loop_count": 0}).             *)
(*                                                                         *)
(* External capabilities (retriever, relevance classifier, completion      *)
(* model) are nondeterministic: every call either raises or returns one    *)
(* of a small set of replies.  An exception that leaves a node aborts the  *)
(* run (pc = "FAILED").                                                    *)
(***************************************************************************)
EXTENDS Integers, Sequences, FiniteSets, TLC

\* ------------------------------------------------------------------ bounds
\* number of distinct passages the index can return
NumDocs == 2
\* longest completion reply, in tokens, that ExplainJargon receives
MaxReplyLen == 3

\* ------------------------------------------------------- program constants
\* top-k of the retriever (search_kwargs={"k": 4})
K == 4
\* retry budget tested by grade_decision_edge (loop_count >= 3)
MaxLoops == 3

FALLBACK == "I'm sorry, I couldn't find enough relevant information in the SEC filings to answer your question accurately."
Unset == "unset"
\* no error surfaced: the caller's except block has not run
NoError == [text |-> "", exc |-> ""]

DocIds == 1..NumDocs

\* The question submitted to the run and the replies of the rewriter model.
InitialQuestion == "q0"
RewriteReplies == {"r1", "r2"}
\* Replies of the answer-synthesis model.
Answers == {"answer"}

\* Verdict of one relevance classification request: is_relevant True / False,
\* or the request raises.
Verdicts == {"yes", "no", "error"}

\* ----------------------------------------------------------- python values
\* Values json.loads can produce, abstracted to type, len() and the items
\* of a dict.  A value without len() (None) has len 0 here; HasLen tells.
PyVal(t, n, items) == [t |-> t, len |-> n, items |-> items]
EmptyDict == PyVal("dict", 0, {})
NoJargon == PyVal("absent", 0, {})
Invalid == PyVal("invalid", 0, {})

\* Tokens of a completion reply to the jargon prompt.  FENCE is the text
\* ``` ; JSONTAG is the word json (so FENCE followed by JSONTAG is the
\* opening of a fenced json block); WS is white space.  The payload tokens
\* are a JSON object with one entry, the empty object, a one-element array,
\* a JSON string, null, free prose, and a JSON object whose one entry has
\* the empty string as its term.
FormatTokens == {"FENCE", "JSONTAG", "WS"}
PayloadTokens == {"DICT", "EMPTY_DICT", "LIST", "STR", "NULL", "PROSE",
                  "DICT_NOTERM"}
Tokens == FormatTokens \cup PayloadTokens

\* the value a JSON document consisting of this one token denotes
\* (PROSE and the format tokens are not JSON)
JsonValue(tok) ==
  CASE tok = "DICT"       -> PyVal("dict", 1, {<<"EBITDA", "profit before some costs">>})
    [] tok = "DICT_NOTERM" -> PyVal("dict", 1, {<<"", "profit before some costs">>})
    [] tok = "EMPTY_DICT" -> EmptyDict
    [] tok = "LIST"       -> PyVal("list", 1, {})
    [] tok = "STR"        -> PyVal("str", 1, {})
    [] tok = "NULL"       -> PyVal("none", 0, {})
    [] OTHER              -> Invalid

\* bool(v): empty containers and None are false
Truthy(v) == v.len > 0
\* len(v) raises TypeError for None
HasLen(v) == v.t \in {"dict", "list", "str"}
\* v.items() raises AttributeError unless v is a dict
HasItems(v) == v.t = "dict"

\* str.replace("```json", ""): drop every FENCE immediately followed by JSONTAG
RECURSIVE ReplaceFenceJson(_)
ReplaceFenceJson(s) ==
  IF Len(s) = 0 THEN <<>>
  ELSE IF Len(s) >= 2 /\ s[1] = "FENCE" /\ s[2] = "JSONTAG"
       THEN ReplaceFenceJson(SubSeq(s, 3, Len(s)))
       ELSE <<s[1]>> \o ReplaceFenceJson(Tail(s))

\* str.replace("```", ""): drop every FENCE
RECURSIVE ReplaceFence(_)
ReplaceFence(s) ==
  IF Len(s) = 0 THEN <<>>
  ELSE IF s[1] = "FENCE" THEN ReplaceFence(Tail(s))
       ELSE <<s[1]>> \o ReplaceFence(Tail(s))

\* str.strip(): drop leading and trailing white space
RECURSIVE Strip(_)
Strip(s) ==
  IF Len(s) = 0 THEN <<>>
  ELSE IF s[1] = "WS" THEN Strip(Tail(s))
  ELSE IF s[Len(s)] = "WS" THEN Strip(SubSeq(s, 1, Len(s) - 1))
  ELSE s

\* json.loads(text): the value of the document, or Invalid where json.loads
\* raises (empty text, prose, a stray word, more than one value)
JsonLoads(s) ==
  LET body == Strip(s)
  IN IF Len(body) = 1 THEN JsonValue(body[1]) ELSE Invalid

\* What a reply to the jargon prompt is, read as text: it carries a JSON
\* object ("mapping"), or it carries none ("no_mapping": prose, a list, a
\* string, null, nothing at all).
ReplyKind(content) ==
  IF \E i \in 1..Len(content) :
        content[i] \in {"DICT", "EMPTY_DICT", "DICT_NOTERM"}
  THEN "mapping" ELSE "no_mapping"

\* Lines 145-152 of explain_jargon_node: the value bound to jargon_dict
\* when the try block is left.  jargon_dict starts as {}; it is rebound as
\* soon as json.loads returns, before len() is evaluated for the log line,
\* so an exception of len() leaves the parsed value in place.
ParseJargon(content) ==
  LET raw_output == Strip(ReplaceFence(ReplaceFenceJson(content)))
      parsed == JsonLoads(raw_output)
  IN IF parsed = Invalid THEN EmptyDict ELSE parsed

SeqsUpTo(S, n) == UNION {[1..m -> S] : m \in 0..n}

Last(s) == s[Len(s)]

\* ------------------------------------------------------------------- state
VARIABLES
  pc,            \* node the compiled graph executes next, "END" or "FAILED"
  question,      \* GraphState.question
  documents,     \* GraphState.documents (sequence of passage ids)
  generation,    \* GraphState.generation, Unset while the key is absent
  jargon_dict,   \* GraphState.jargon_dict, NoJargon while the key is absent
  loop_count,    \* GraphState.loop_count
  events,        \* names of the nodes whose output the stream has yielded
  failedNode,    \* node an exception escaped from, Unset if none
  raised,        \* nodes whose external call (retriever / model) raised
  calls,         \* retriever and completion requests issued, per purpose
  lastRetrieved, \* result of the most recent retriever call
  lastVerdicts,  \* classifier outcomes offered to the most recent Grade
  hit,           \* first Grade that kept a document: position and loop_count
  jargonReply,   \* kind of reply the jargon completion call returned, if any
  rewritePrompt, \* question the latest rewrite request was built from
  lastPatch,     \* state patch carried by the latest stream output
  driver,        \* caller that consumes the stream: "app" or "main"
  status,        \* the caller's view of the run: running, complete, error
  shownError,    \* error the caller surfaces, NoError if none
  final_answer,  \* app.py: final_answer
  learned_jargon, \* app.py: learned_jargon
  active,        \* nodes the graph has scheduled for its next step
  runs,          \* execution state of each of two runs of one compiled graph
  messages,      \* app.py: st.session_state.messages
  lastRun,       \* what the latest call of the chat input handler came to
  saved,         \* the document _save_document wrote last, with its path
  metadata       \* what parse_metadata_from_filename made of that path

vars == <<pc, question, documents, generation, jargon_dict, loop_count,
          events, failedNode, raised, calls, lastRetrieved, lastVerdicts,
          hit, jargonReply, rewritePrompt, lastPatch, driver, status,
          shownError, final_answer, learned_jargon, active, runs, messages,
          lastRun, saved, metadata>>

\* the variables of the single run
runVars == <<pc, question, documents, generation, jargon_dict, loop_count,
             events, failedNode, raised, calls, lastRetrieved, lastVerdicts,
             hit, jargonReply, rewritePrompt, lastPatch, driver, status,
             shownError, final_answer, learned_jargon, active>>

\* the variables of the chat session and of the document files
chatVars == <<messages, lastRun>>
fileVars == <<saved, metadata>>

\* the two runs that share the compiled graph, and the questions they ask
RunIds == {"a", "b"}
RunQuestions == {"q0", "q1"}
\* a run that has not been started
IdleRun ==
  [pc |-> "idle", question |-> "", documents |-> <<>>, generation |-> Unset,
   jargon_dict |-> NoJargon, loop_count |-> 0]

Nodes == {"retrieve", "grade_documents", "rewrite_query", "explain_jargon",
          "generate_answer"}

\* a retriever that returns one passage more than k
RetrieverResults_NoLimit == SeqsUpTo(DocIds, K + 1)
\* The retriever returns at most K passages, in rank order.
RetrieverResults == SeqsUpTo(DocIds, K)
\* Replies of the completion model to the jargon prompt.
JargonReplies == SeqsUpTo(Tokens, MaxReplyLen)
\* What explain_jargon_node makes of each reply: the value it binds to
\* jargon_dict, with the kind of the reply.
JargonOutcomes ==
  {[jargon |-> ParseJargon(content), kind |-> ReplyKind(content)] :
     content \in JargonReplies}

\* the handler has not been called yet
NoRun ==
  [status |-> "none", prompt |-> "", generation |-> Unset,
   jargon_dict |-> NoJargon]
\* no document has been written, no path has been parsed
NoFile ==
  [ticker |-> <<>>, year |-> <<>>, form_type |-> <<>>, quarter |-> <<>>,
   section |-> <<>>, path |-> <<>>]
NoMetadata ==
  [source |-> <<>>, Ticker |-> <<>>, Year |-> <<>>, Quarter |-> <<>>,
   Form_Type |-> <<>>]

\* add_edge(START, "retrieve")
EntryPoint == "retrieve"

\* initial_state = {"question": prompt, "loop_count": 0}; the graph starts
\* at the node START points to.
Init ==
  /\ pc = EntryPoint
  /\ active = {EntryPoint}
  /\ question = InitialQuestion
  /\ documents = <<>>
  /\ generation = Unset
  /\ jargon_dict = NoJargon
  /\ loop_count = 0
  /\ events = <<>>
  /\ failedNode = Unset
  /\ raised = {}
  /\ calls = [retrieve |-> 0, rewrite |-> 0, jargon |-> 0, answer |-> 0]
  /\ lastRetrieved = <<>>
  /\ lastVerdicts = <<>>
  /\ hit = [at |-> 0, loop |-> 0]
  /\ jargonReply = Unset
  /\ rewritePrompt = Unset
  /\ lastPatch = [none |-> TRUE]
  /\ driver \in {"app", "main"}
  /\ status = "running"
  /\ shownError = NoError
  /\ final_answer = ""
  /\ learned_jargon = EmptyDict
  /\ runs = [r \in RunIds |-> IdleRun]
  /\ messages = <<>>
  /\ lastRun = NoRun
  /\ saved = NoFile
  /\ metadata = NoMetadata

\* ------------------------------------------------------------ pure helpers
\* a grading loop that puts each kept passage in front of the list
RECURSIVE FilterDocs_Prepend(_, _)
FilterDocs_Prepend(docs, v) ==
  IF Len(docs) = 0 THEN <<>>
  ELSE IF v[1] = "yes"
       THEN FilterDocs_Prepend(Tail(docs), Tail(v)) \o <<docs[1]>>
       ELSE FilterDocs_Prepend(Tail(docs), Tail(v))

\* a grading loop that appends each kept passage twice
RECURSIVE FilterDocs_Doubling(_, _)
FilterDocs_Doubling(docs, v) ==
  IF Len(docs) = 0 THEN <<>>
  ELSE IF v[1] = "yes"
       THEN <<docs[1], docs[1]>> \o FilterDocs_Doubling(Tail(docs), Tail(v))
       ELSE FilterDocs_Doubling(Tail(docs), Tail(v))

\* the loop of grade_documents_node: append the passages graded relevant
RECURSIVE FilterDocs(_, _)
FilterDocs(docs, v) ==
  IF Len(docs) = 0 THEN <<>>
  ELSE IF v[1] = "yes"
       THEN <<docs[1]>> \o FilterDocs(Tail(docs), Tail(v))
       ELSE FilterDocs(Tail(docs), Tail(v))

\* number of classification requests a Grade pass issues before its loop
\* ends or raises (the requests of the latest pass: lastVerdicts)
RECURSIVE ClassifyRequests(_)
ClassifyRequests(v) ==
  IF Len(v) = 0 THEN 0
  ELSE IF v[1] = "error" THEN 1
       ELSE 1 + ClassifyRequests(Tail(v))

\* a decision edge that tests the budget with > instead of >=
grade_decision_edge_LateCap(filtered_documents, lc) ==
  IF filtered_documents = <<>>
  THEN IF lc > MaxLoops THEN "generate" ELSE "rewrite"
  ELSE "explain_jargon"

\* a decision edge that gives up one rewrite early
grade_decision_edge_EarlyCap(filtered_documents, lc) ==
  IF filtered_documents = <<>>
  THEN IF lc >= MaxLoops - 1 THEN "generate" ELSE "rewrite"
  ELSE "explain_jargon"

\* a decision edge that sends graded passages straight to generate
grade_decision_edge_SkipJargon(filtered_documents, lc) ==
  IF filtered_documents = <<>>
  THEN IF lc >= MaxLoops THEN "generate" ELSE "rewrite"
  ELSE "generate"

grade_decision_edge(filtered_documents, lc) ==
  IF filtered_documents = <<>>
  THEN IF lc >= MaxLoops THEN "generate" ELSE "rewrite"
  ELSE "explain_jargon"

\* a path map whose "rewrite" and "generate" targets are exchanged
EdgeTarget_Swapped(label) ==
  CASE label = "explain_jargon" -> "explain_jargon"
    [] label = "rewrite"        -> "generate_answer"
    [] label = "generate"       -> "rewrite_query"

\* the path map handed to add_conditional_edges
EdgeTarget(label) ==
  CASE label = "explain_jargon" -> "explain_jargon"
    [] label = "rewrite"        -> "rewrite_query"
    [] label = "generate"       -> "generate_answer"

\* a fallback test that ignores the retry budget being reached exactly
IsFallback_LateCap(docs, lc) == docs = <<>> /\ lc > MaxLoops

\* the fallback test of generate_answer_node
IsFallback(docs, lc) == docs = <<>> /\ lc >= MaxLoops

\* state.get("jargon_dict", {})
StateGetJargon(jd) == IF jd = NoJargon THEN EmptyDict ELSE jd

\* building jargon_text: "if jargon_dict:" then jargon_dict.items()
JargonTextRaises(jd) == Truthy(jd) /\ ~HasItems(jd)

Bump(c, f) == [c EXCEPT ![f] = @ + 1]

\* the unconditional edges of the compiled graph
NextNode_JargonLoops(node) ==
  CASE node = "retrieve"        -> "grade_documents"
    [] node = "rewrite_query"   -> "retrieve"
    [] node = "explain_jargon"  -> "retrieve"
    [] node = "generate_answer" -> "END"

\* a graph whose generate_answer node leads back to itself
NextNode_GenerateAgain(node) ==
  CASE node = "retrieve"        -> "grade_documents"
    [] node = "rewrite_query"   -> "retrieve"
    [] node = "explain_jargon"  -> "generate_answer"
    [] node = "generate_answer" -> "generate_answer"

\* the unconditional edges of the compiled graph: add_edge(a, b)
NextNode(node) ==
  CASE node = "retrieve"        -> "grade_documents"
    [] node = "rewrite_query"   -> "retrieve"
    [] node = "explain_jargon"  -> "generate_answer"
    [] node = "generate_answer" -> "END"

\* a graph with a second edge out of retrieve
Edges_FanOut ==
  {<<"retrieve", "grade_documents">>, <<"retrieve", "explain_jargon">>,
   <<"rewrite_query", "retrieve">>, <<"explain_jargon", "generate_answer">>,
   <<"generate_answer", "END">>}

\* the add_edge calls of compile_rag_graph, as pairs (from, to)
Edges ==
  {<<"retrieve", "grade_documents">>, <<"rewrite_query", "retrieve">>,
   <<"explain_jargon", "generate_answer">>, <<"generate_answer", "END">>}

\* The nodes the graph schedules for its next step when node has returned:
\* the target of every edge that leaves it, and for grade_documents the
\* node its conditional edge selects.  The nodes of one step run together.
Triggered(node, docs, lc) ==
  ({e[2] : e \in {d \in Edges : d[1] = node}}
     \cup (IF node = "grade_documents"
           THEN {EdgeTarget(grade_decision_edge(docs, lc))} ELSE {}))
  \ {"END"}

\* a stream that yields the output of grade_documents twice
StreamYield_Twice(evs, node) ==
  IF node = "grade_documents" THEN evs \o <<node, node>> ELSE Append(evs, node)

\* app.stream(initial_state): one output {node: patch} per finished node
StreamYield(evs, node) == Append(evs, node)

\* a rewrite that leaves the counter alone on the first pass
RewriteLoopCount_Stuck(lc) == IF lc = 0 THEN 0 ELSE lc + 1

\* loop_count += 1
RewriteLoopCount(lc) == lc + 1

\* the question interpolated into the rewrite request: state["question"],
\* whatever the question the run was started with
RewritePromptQuestion(original, current) == current

\* a retrieval that drops the best-ranked passage
RetrievedDocuments_DropFirst(result) ==
  IF result = <<>> THEN <<>> ELSE Tail(result)

\* documents = retriever.invoke(question), returned as it is
RetrievedDocuments(result) == result

\* the state patches the nodes return
retrieve_patch(docs, q, lc) ==
  [documents |-> docs, question |-> q, loop_count |-> lc]
grade_patch(docs, q, lc) ==
  [documents |-> docs, question |-> q, loop_count |-> lc]
rewrite_patch(q, docs, lc) ==
  [question |-> q, documents |-> docs, loop_count |-> lc]
jargon_patch(jd) == [jargon_dict |-> jd]
generate_patch(text) == [generation |-> text]

\* the keys of GraphState and the values the run holds for them
StateKeys == {"question", "documents", "generation", "jargon_dict",
              "loop_count"}
StateRec ==
  [question |-> question, documents |-> documents, generation |-> generation,
   jargon_dict |-> jargon_dict, loop_count |-> loop_count]

\* the two callers of the graph: the chat input handler of app.py and the
\* __main__ block of graph_rag.py
Drivers == {"app", "main"}
\* What the caller surfaces when the stream raises: a fixed text, and the
\* text of the exception e in the log line.  The exception is the one the
\* retriever, the model client or the interpreter raised; no node wraps it.
APP_ERROR == "There was an error answering your question. Make sure your GOOGLE_API_KEY is active and documents are ingested."
MAIN_ERROR == "Graph execution failed"
ErrorShown(d, e) ==
  [text |-> IF d = "app" THEN APP_ERROR ELSE MAIN_ERROR, exc |-> e]
\* the exception an external call of node n raises when it fails: the
\* retriever's for retrieve, the model client's for the four other nodes
CallError(n) == IF n = "retrieve" THEN "RetrieverError" ELSE "ModelError"

\* learned_jargon.update(jargon) raises ValueError unless jargon is a dict
\* (or a sequence of pairs): a list of terms or a string is neither
UpdateRaises(jargon) == ~HasItems(jargon)
\* learned_jargon.update(jargon) for a dict
DictUpdate(old, jargon) ==
  PyVal("dict", Cardinality(old.items \cup jargon.items),
        old.items \cup jargon.items)

\* the except block of the caller: an exception left node n (or the
\* caller's own loop body) and the run is over
Abort(n, e) ==
  /\ pc' = "FAILED"
  /\ failedNode' = n
  /\ status' = "error"
  /\ shownError' = ErrorShown(driver, e)
  /\ active' = {}

\* the stream goes on to node n, or is exhausted and the caller's try block
\* runs to its end
Goto(n) ==
  /\ pc' = n
  /\ status' = IF n = "END" THEN "complete" ELSE status
  /\ UNCHANGED <<failedNode, shownError>>

\* ----------------------------------------------------------------- actions
\* retrieve_node, then the edge retrieve -> grade_documents
retrieve_node ==
  /\ pc = "retrieve"
  /\ calls' = Bump(calls, "retrieve")
  /\ \/ \* retriever.invoke raises
        /\ Abort("retrieve", CallError("retrieve"))
        /\ raised' = raised \cup {"retrieve"}
        /\ UNCHANGED <<question, documents, loop_count, events, lastRetrieved,
                       lastPatch>>
     \/ \E result \in RetrieverResults :
        LET patch == retrieve_patch(RetrievedDocuments(result), question,
                                    loop_count)
        IN /\ documents' = patch.documents
           /\ lastRetrieved' = result
           /\ question' = patch.question
           /\ loop_count' = patch.loop_count
           /\ events' = StreamYield(events, "retrieve")
           /\ lastPatch' = patch
           /\ Goto(NextNode("retrieve"))
           /\ active' = Triggered("retrieve", patch.documents, loop_count)
           /\ UNCHANGED raised
  /\ UNCHANGED <<generation, jargon_dict, lastVerdicts, hit, jargonReply,
                 rewritePrompt, driver, runs,
                 chatVars, fileVars, final_answer, learned_jargon>>

\* grade_documents_node, then the conditional edge grade_decision_edge
grade_documents_node ==
  /\ pc = "grade_documents"
  /\ \E v \in [1..Len(documents) -> Verdicts] :
        /\ lastVerdicts' = v
        /\ IF \E i \in 1..Len(v) : v[i] = "error"
           THEN \* retrieval_grader.invoke raises inside the loop
                /\ Abort("grade_documents", CallError("grade_documents"))
                /\ raised' = raised \cup {"grade_documents"}
                /\ UNCHANGED <<documents, events, hit, lastPatch>>
           ELSE LET filtered_docs == FilterDocs(documents, v)
                    patch == grade_patch(filtered_docs, question, loop_count)
                IN /\ documents' = patch.documents
                   /\ events' = StreamYield(events, "grade_documents")
                   /\ lastPatch' = patch
                   /\ Goto(EdgeTarget(grade_decision_edge(filtered_docs,
                                                          loop_count)))
                   /\ active' = Triggered("grade_documents", filtered_docs,
                                          loop_count)
                   /\ hit' = IF hit.at = 0 /\ filtered_docs # <<>>
                             THEN [at |-> Len(events) + 1, loop |-> loop_count]
                             ELSE hit
                   /\ UNCHANGED raised
  /\ UNCHANGED <<question, loop_count, generation, jargon_dict, lastRetrieved,
                 jargonReply, calls, rewritePrompt, driver, runs,
                 chatVars, fileVars, final_answer,
                 learned_jargon>>

\* rewrite_query_node, then the edge rewrite_query -> retrieve
rewrite_query_node ==
  /\ pc = "rewrite_query"
  /\ calls' = Bump(calls, "rewrite")
  /\ rewritePrompt' = RewritePromptQuestion(InitialQuestion, question)
  /\ \/ \* question_rewriter.invoke raises
        /\ Abort("rewrite_query", CallError("rewrite_query"))
        /\ raised' = raised \cup {"rewrite_query"}
        /\ UNCHANGED <<question, loop_count, events, lastPatch>>
     \/ \E rewritten_question \in RewriteReplies :
        LET patch == rewrite_patch(rewritten_question, documents,
                                   RewriteLoopCount(loop_count))
        IN /\ question' = patch.question
           /\ loop_count' = patch.loop_count
           /\ events' = StreamYield(events, "rewrite_query")
           /\ lastPatch' = patch
           /\ Goto(NextNode("rewrite_query"))
           /\ active' = Triggered("rewrite_query", documents,
                                  patch.loop_count)
           /\ UNCHANGED raised
  /\ UNCHANGED <<documents, generation, jargon_dict, lastRetrieved,
                 lastVerdicts, hit, jargonReply, driver, runs,
                 chatVars, fileVars, final_answer,
                 learned_jargon>>

\* explain_jargon_node, then the caller's handling of its output, then the
\* edge explain_jargon -> generate_answer
explain_jargon_node ==
  /\ pc = "explain_jargon"
  /\ calls' = Bump(calls, "jargon")
  /\ \/ \* chain.invoke raises; the call stands before the try block
        /\ Abort("explain_jargon", CallError("explain_jargon"))
        /\ raised' = raised \cup {"explain_jargon"}
        /\ UNCHANGED <<jargon_dict, events, jargonReply, lastPatch,
                       learned_jargon>>
     \/ \E reply \in JargonOutcomes :
        LET patch == jargon_patch(reply.jargon)
            jargon == patch.jargon_dict
        IN /\ jargonReply' = reply.kind
           /\ jargon_dict' = patch.jargon_dict
           /\ events' = StreamYield(events, "explain_jargon")
           /\ lastPatch' = patch
           /\ UNCHANGED raised
           /\ IF driver = "app" /\ Truthy(jargon)
              THEN IF UpdateRaises(jargon)
                   THEN \* the handler raises; the stream is abandoned
                        /\ Abort("chat_handler", "ValueError")
                        /\ UNCHANGED learned_jargon
                   ELSE /\ learned_jargon' = DictUpdate(learned_jargon, jargon)
                        /\ Goto(NextNode("explain_jargon"))
                        /\ active' = Triggered("explain_jargon", documents,
                                               loop_count)
              ELSE /\ UNCHANGED learned_jargon
                   /\ Goto(NextNode("explain_jargon"))
                   /\ active' = Triggered("explain_jargon", documents,
                                          loop_count)
  /\ UNCHANGED <<question, documents, generation, loop_count, lastRetrieved,
                 lastVerdicts, hit, rewritePrompt, driver, runs,
                 chatVars, fileVars, final_answer>>

\* generate_answer_node, then the caller's handling of its output, then the
\* edge generate_answer -> END
generate_answer_node ==
  /\ pc = "generate_answer"
  /\ IF IsFallback(documents, loop_count)
     THEN LET patch == generate_patch(FALLBACK)
          IN /\ generation' = patch.generation
             /\ final_answer' = IF driver = "app" THEN patch.generation
                                ELSE final_answer
             /\ events' = StreamYield(events, "generate_answer")
             /\ lastPatch' = patch
             /\ Goto(NextNode("generate_answer"))
             /\ active' = Triggered("generate_answer", documents, loop_count)
             /\ UNCHANGED <<raised, calls>>
     ELSE IF JargonTextRaises(StateGetJargon(jargon_dict))
     THEN \* jargon_dict.items() raises AttributeError before the request
          /\ Abort("generate_answer", "AttributeError")
          /\ UNCHANGED <<generation, events, raised, calls, lastPatch,
                         final_answer>>
     ELSE /\ calls' = Bump(calls, "answer")
          /\ \/ \* chain.invoke raises
                /\ Abort("generate_answer", CallError("generate_answer"))
                /\ raised' = raised \cup {"generate_answer"}
                /\ UNCHANGED <<generation, events, lastPatch, final_answer>>
             \/ \E content \in Answers :
                LET patch == generate_patch(content)
                IN /\ generation' = patch.generation
                   /\ final_answer' = IF driver = "app" THEN patch.generation
                                      ELSE final_answer
                   /\ events' = StreamYield(events, "generate_answer")
                   /\ lastPatch' = patch
                   /\ Goto(NextNode("generate_answer"))
                   /\ active' = Triggered("generate_answer", documents,
                                          loop_count)
                   /\ UNCHANGED raised
  /\ UNCHANGED <<question, documents, jargon_dict, loop_count, lastRetrieved,
                 lastVerdicts, hit, jargonReply, rewritePrompt, driver, runs,
                 chatVars, fileVars,
                 learned_jargon>>

Next ==
  \/ retrieve_node
  \/ grade_documents_node
  \/ rewrite_query_node
  \/ explain_jargon_node
  \/ generate_answer_node

Spec == Init /\ [][Next]_vars

\* The driver of the compiled graph runs the next node as long as there is
\* one: a run never stops in front of a node.
FairSpec == Spec /\ WF_vars(Next)

\* ------------------------------------------- two runs of one compiled graph
\* longest retriever result in the two-run specification
MaxRunDocs == 1

RunRetrieverResults == SeqsUpTo(DocIds, MaxRunDocs)

\* initial_state = {"question": prompt, "loop_count": 0}: built anew for
\* every call of graph.stream; the other keys are absent
InitialState(prompt) ==
  [pc |-> "retrieve", question |-> prompt, documents |-> <<>>,
   generation |-> Unset, jargon_dict |-> NoJargon, loop_count |-> 0]

\* a graph that keeps one state for all its runs
UpdateRun_Shared(all, r, st) == [o \in RunIds |-> st]

\* the compiled graph holds no state of its own (no checkpointer): every
\* call of stream works on the state of its own run
UpdateRun(all, r, st) == [all EXCEPT ![r] = st]

\* the states one step of the graph can lead to from execution state st:
\* the node st.pc runs, raises or returns its patch, and the edge is taken
NodeOutcomes(st) ==
  LET failed == [st EXCEPT !.pc = "FAILED"]
  IN CASE st.pc = "retrieve" ->
            {failed} \cup
            {[st EXCEPT !.documents = RetrievedDocuments(result),
                        !.pc = NextNode("retrieve")] :
               result \in RunRetrieverResults}
       [] st.pc = "grade_documents" ->
            {failed : i \in 1..Len(st.documents)} \cup
            {[st EXCEPT !.documents = FilterDocs(st.documents, v),
                        !.pc = EdgeTarget(grade_decision_edge(
                                 FilterDocs(st.documents, v), st.loop_count))] :
               v \in [1..Len(st.documents) -> {"yes", "no"}]}
       [] st.pc = "rewrite_query" ->
            {failed} \cup
            {[st EXCEPT !.question = rewritten_question,
                        !.loop_count = RewriteLoopCount(st.loop_count),
                        !.pc = NextNode("rewrite_query")] :
               rewritten_question \in RewriteReplies}
       [] st.pc = "explain_jargon" ->
            {failed} \cup
            {[st EXCEPT !.jargon_dict = reply.jargon,
                        !.pc = NextNode("explain_jargon")] :
               reply \in JargonOutcomes}
       [] st.pc = "generate_answer" ->
            IF IsFallback(st.documents, st.loop_count)
            THEN {[st EXCEPT !.generation = FALLBACK,
                             !.pc = NextNode("generate_answer")]}
            ELSE IF JargonTextRaises(StateGetJargon(st.jargon_dict))
            THEN {failed}
            ELSE {failed} \cup
                 {[st EXCEPT !.generation = content,
                             !.pc = NextNode("generate_answer")] :
                    content \in Answers}
       [] OTHER -> {}

\* graph.stream(initial_state) is called for run r
StartRun(r) ==
  /\ runs[r].pc = "idle"
  /\ \E prompt \in RunQuestions :
        runs' = UpdateRun(runs, r, InitialState(prompt))
  /\ UNCHANGED <<runVars, chatVars, fileVars>>

\* run r executes its next node
StepRun(r) ==
  /\ runs[r].pc \in Nodes
  /\ \E st \in NodeOutcomes(runs[r]) : runs' = UpdateRun(runs, r, st)
  /\ UNCHANGED <<runVars, chatVars, fileVars>>

TwoRunInit ==
  /\ Init
  /\ driver = "app"

TwoRunNext ==
  \/ \E r \in RunIds : StartRun(r)
  \/ \E r \in RunIds : StepRun(r)

\* two runs through the same compiled graph, one after the other or
\* interleaved in any way
TwoRunSpec == TwoRunInit /\ [][TwoRunNext]_vars

\* ------------------------------------------------------- the chat session
\* number of questions asked in one session
MaxQuestions == 2

\* The chat input handler while it consumes graph.stream(initial_state): the
\* execution state of the run, the handler's final_answer and
\* learned_jargon, and whether the handler is still in its loop.
HandlerStart(prompt) ==
  [st |-> InitialState(prompt), final_answer |-> "",
   learned_jargon |-> EmptyDict, status |-> "running"]

\* One pass of the handler's loop from h: the node h.st.pc runs and its
\* output is handled.  An exception from the node or from the loop body
\* takes the handler to its except block.
HandlerNext(h) ==
  IF h.status # "running" THEN {}
  ELSE {IF s.pc = "FAILED"
        THEN [h EXCEPT !.st = s, !.status = "error"]
        ELSE IF h.st.pc = "explain_jargon" /\ Truthy(s.jargon_dict)
        THEN IF UpdateRaises(s.jargon_dict)
             THEN [h EXCEPT !.st = s, !.status = "error"]
             ELSE [h EXCEPT !.st = s,
                            !.learned_jargon =
                               DictUpdate(h.learned_jargon, s.jargon_dict)]
        ELSE IF h.st.pc = "generate_answer"
        THEN [h EXCEPT !.st = s, !.final_answer = s.generation,
                       !.status = IF s.pc = "END" THEN "complete"
                                  ELSE "running"]
        ELSE [h EXCEPT !.st = s] :
        s \in NodeOutcomes(h.st)}

\* every state the handler can be in after some passes of its loop
RECURSIVE HandlerReach(_)
HandlerReach(S) ==
  LET N == S \cup UNION {HandlerNext(h) : h \in S}
  IN IF N = S THEN S ELSE HandlerReach(N)

\* the states in which the handler leaves its try statement, per question
HandlerOutcomes ==
  [prompt \in RunQuestions |->
     {h \in HandlerReach({HandlerStart(prompt)}) : h.status # "running"}]

\* a handler that saves an assistant message in its except block too
HandlerMessages_SaveOnError(msgs, prompt, h) ==
  Append(Append(msgs, [role |-> "user", content |-> prompt,
                       jargon |-> EmptyDict]),
         [role |-> "assistant", content |-> h.final_answer,
          jargon |-> h.learned_jargon])

\* st.session_state.messages after the handler has run for prompt and left
\* its try statement in h: the user message is appended first, the
\* assistant message at the end of the try block
HandlerMessages(msgs, prompt, h) ==
  LET asked == Append(msgs, [role |-> "user", content |-> prompt,
                             jargon |-> EmptyDict])
  IN IF h.status = "complete"
     THEN Append(asked, [role |-> "assistant", content |-> h.final_answer,
                         jargon |-> h.learned_jargon])
     ELSE asked

Questions(msgs) == {i \in 1..Len(msgs) : msgs[i].role = "user"}

\* the user submits a question: the handler runs from the chat input to
\* the end of its try statement
chat_input ==
  /\ Cardinality(Questions(messages)) < MaxQuestions
  /\ \E prompt \in RunQuestions :
        \E h \in HandlerOutcomes[prompt] :
           /\ messages' = HandlerMessages(messages, prompt, h)
           /\ lastRun' = [status |-> h.status, prompt |-> prompt,
                          generation |-> h.st.generation,
                          jargon_dict |-> h.st.jargon_dict]
  /\ UNCHANGED <<runVars, runs, fileVars>>

ChatInit ==
  /\ Init
  /\ driver = "app"

ChatNext == chat_input

\* a chat session: questions asked one after the other
ChatSpec == ChatInit /\ [][ChatNext]_vars

\* --------------------------------------------------- document file names
\* Strings are sequences of pieces; "_", "/" and ".txt" are pieces of their
\* own, so that splitting and replacing act on them as on the characters.
Tickers == {<<"AAPL">>, <<"MSFT">>}
Years == {<<"2023">>, <<"2024">>}
FormTypes == {<<"10-K">>, <<"10-Q">>, <<"8-K">>}
\* actual_quarter = "Q_Unknown" unless the caller names the quarters
Q_Unknown == <<"Q", "_", "Unknown">>
Quarters == {<<"Q1">>, <<"Q2">>, Q_Unknown}
Sections == {<<>>, <<"1A">>, <<"part1item1">>, <<"Full">>}

\* s.replace("/", "-")
ReplaceSlash(s) == [i \in 1..Len(s) |-> IF s[i] = "/" THEN "-" ELSE s[i]]

\* the path _save_document writes to
SavePath(ticker, year, form_type, quarter, section) ==
  LET save_dir == <<"data", "/">> \o ticker \o <<"/">> \o year \o <<"/">>
                    \o ReplaceSlash(form_type)
      q_str == IF quarter # <<>> THEN <<"_">> \o quarter ELSE <<>>
      s_str == IF section # <<>> THEN <<"_", "Section", "_">> \o section
               ELSE <<>>
      filename == ReplaceSlash(ticker \o <<"_">> \o year \o q_str \o <<"_">>
                               \o form_type \o s_str \o <<".txt">>)
  IN save_dir \o <<"/">> \o filename

\* os.path.basename
RECURSIVE Basename(_)
Basename(path) ==
  IF \E i \in 1..Len(path) : path[i] = "/" THEN Basename(Tail(path))
  ELSE path

\* os.path.splitext(filename)[0]
SplitExt(filename) ==
  IF filename # <<>> /\ Last(filename) = ".txt"
  THEN SubSeq(filename, 1, Len(filename) - 1)
  ELSE filename

\* name.split("_")
RECURSIVE SplitUnderscore(_)
SplitUnderscore(name) ==
  IF name = <<>> THEN << <<>> >>
  ELSE LET rest == SplitUnderscore(Tail(name))
       IN IF Head(name) = "_" THEN << <<>> >> \o rest
          ELSE << <<Head(name)>> \o rest[1] >> \o Tail(rest)

parse_metadata_from_filename(filepath) ==
  LET parts == SplitUnderscore(SplitExt(Basename(filepath)))
  IN IF Len(parts) >= 4
     THEN [source |-> filepath, Ticker |-> parts[1], Year |-> parts[2],
           Quarter |-> parts[3], Form_Type |-> parts[4]]
     ELSE [NoMetadata EXCEPT !.source = filepath]

\* _save_document is called for one section of one filing
save_document ==
  /\ \E ticker \in Tickers, year \in Years, form_type \in FormTypes,
        quarter \in Quarters, section \in Sections :
        saved' = [ticker |-> ticker, year |-> year, form_type |-> form_type,
                  quarter |-> quarter, section |-> section,
                  path |-> SavePath(ticker, year, form_type, quarter,
                                    section)]
  /\ metadata' = NoMetadata
  /\ UNCHANGED <<runVars, runs, chatVars>>

\* ingest_documents reads the file back and derives its metadata
ingest_document ==
  /\ saved # NoFile
  /\ metadata' = parse_metadata_from_filename(saved.path)
  /\ UNCHANGED <<runVars, runs, chatVars, saved>>

FileNext ==
  \/ save_document
  \/ ingest_document

\* documents are fetched and ingested, one after the other
FileSpec == Init /\ [][FileNext]_vars

\* -------------------------------------------------- derived run history
RECURSIVE Count(_, _)
Count(s, x) ==
  IF Len(s) = 0 THEN 0
  ELSE (IF s[1] = x THEN 1 ELSE 0) + Count(Tail(s), x)

\* the nodes that have been entered: those that completed, and the one an
\* exception escaped from
Started ==
  IF pc = "FAILED" /\ failedNode \in Nodes THEN Append(events, failedNode)
  ELSE events

RunOver == pc \in {"END", "FAILED"}

\* out is the subsequence of inp at exactly the positions graded "yes":
\* some strictly increasing choice of positions, covering all "yes"
\* positions and no other, reads out from inp
IsKeptSubsequence(out, inp, v) ==
  \E f \in [1..Len(out) -> 1..Len(inp)] :
     /\ \A i, j \in 1..Len(out) : i < j => f[i] < f[j]
     /\ \A j \in 1..Len(out) : out[j] = inp[f[j]]
     /\ {f[j] : j \in 1..Len(out)} = {i \in 1..Len(inp) : v[i] = "yes"}

\* ------------------------------------------------------------------ claims

\* C1: every run in which no external call raises reaches END, with at most
\* 3 Rewrite steps, each followed by one Retrieve and one Grade, and exactly
\* one Generate step.
C1_NoFailureRunTerminates ==
  <>(\/ raised # {}
     \/ /\ pc = "END"
        /\ Count(events, "rewrite_query") <= 3
        /\ Count(events, "generate_answer") = 1
        /\ Last(events) = "generate_answer"
        /\ \A i \in 1..Len(events) :
              events[i] = "rewrite_query" =>
                /\ i + 2 <= Len(events)
                /\ events[i + 1] = "retrieve"
                /\ events[i + 2] = "grade_documents")

\* C2: loop_count is an integer between 0 and 3 in every reachable state.
C2_LoopCountRange == loop_count \in 0..3

C2_Witness == loop_count = 3 /\ pc = "generate_answer"

\* C3: a completed Grade step hands control to exactly one of ExplainJargon,
\* Rewrite and Generate: ExplainJargon iff the filtered list is non-empty,
\* Rewrite iff it is empty and loop_count < 3, Generate iff it is empty and
\* loop_count >= 3.
C3_GradeRouting ==
  [][(pc = "grade_documents" /\ events' # events) =>
       /\ pc' \in {"explain_jargon", "rewrite_query", "generate_answer"}
       /\ (pc' = "explain_jargon" <=> documents' # <<>>)
       /\ (pc' = "rewrite_query" <=> (documents' = <<>> /\ loop_count' < 3))
       /\ (pc' = "generate_answer" <=> (documents' = <<>> /\ loop_count' >= 3))
    ]_vars

C3_Witness ==
  /\ events # <<>>
  /\ Last(events) = "grade_documents"
  /\ pc = "rewrite_query"
  /\ loop_count = 2

\* C4: once a Grade step has kept a document, no Rewrite and no Retrieve
\* follows, loop_count keeps the value it had at that step (0 if it was the
\* first grading pass), and the run has ExplainJargon exactly once and then
\* Generate exactly once.
C4_AfterRelevantGrade ==
  hit.at > 0 =>
    /\ \A i \in (hit.at + 1)..Len(Started) :
          Started[i] \notin {"rewrite_query", "retrieve"}
    /\ loop_count = hit.loop
    /\ (hit.at = 2 => loop_count = 0)
    /\ RunOver =>
          /\ Count(Started, "explain_jargon") = 1
          /\ Count(Started, "generate_answer") = 1
          /\ Started[hit.at + 1] = "explain_jargon"
          /\ Started[hit.at + 2] = "generate_answer"

\* C5: a Generate step that starts with no documents and loop_count >= 3
\* sets generation to the fixed apology and issues no completion request.
C5_FallbackWithoutRequest ==
  [][(pc = "generate_answer" /\ documents = <<>> /\ loop_count >= 3) =>
       /\ generation' = FALLBACK
       /\ calls' = calls
       /\ pc' = "END"
    ]_vars

C5_Witness ==
  /\ pc = "END"
  /\ documents = <<>>
  /\ generation = FALLBACK
  /\ calls.answer = 0

\* C6 (as stated): a run that has ended and whose grading passes (at least
\* one) all kept nothing had exactly 3 Rewrite steps and no ExplainJargon,
\* and ended with loop_count = 3, the fallback generation and no jargon.
C6_AllEmptyRunEndsInFallback ==
  (RunOver /\ hit.at = 0 /\ Count(events, "grade_documents") >= 1) =>
    /\ Count(Started, "rewrite_query") = 3
    /\ Count(Started, "explain_jargon") = 0
    /\ loop_count = 3
    /\ generation = FALLBACK
    /\ StateGetJargon(jargon_dict) = EmptyDict

\* C6 (amended): a run that reaches END and whose grading passes all kept
\* nothing had exactly 3 Rewrite steps and no ExplainJargon, and ended with
\* loop_count = 3, the fallback generation and no jargon.
C6_CompletedAllEmptyRun ==
  (pc = "END" /\ hit.at = 0) =>
    /\ Count(events, "rewrite_query") = 3
    /\ Count(events, "grade_documents") = 4
    /\ Count(events, "explain_jargon") = 0
    /\ loop_count = 3
    /\ generation = FALLBACK
    /\ StateGetJargon(jargon_dict) = EmptyDict

C6_Witness ==
  /\ pc = "END"
  /\ hit.at = 0
  /\ Count(events, "rewrite_query") = 3
  /\ Len(lastRetrieved) = K

\* C7: when a classification request raises during Grade, the run does not
\* fail in Grade: the pass completes and keeps exactly the documents that
\* were graded relevant.
C7_ClassificationFailureIsLocal ==
  (\E i \in 1..Len(lastVerdicts) : lastVerdicts[i] = "error") =>
    /\ failedNode # "grade_documents"
    /\ Count(events, "grade_documents") >= 1
    /\ IsKeptSubsequence(documents, lastRetrieved, lastVerdicts)

\* C8: the list a Grade step returns is the subsequence of its input made
\* of the documents graded relevant, in retrieval order.
C8_GradeKeepsRelevantInOrder ==
  (events # <<>> /\ Last(events) = "grade_documents") =>
    IsKeptSubsequence(documents, lastRetrieved, lastVerdicts)

C8_Witness ==
  /\ events # <<>>
  /\ Last(events) = "grade_documents"
  /\ lastRetrieved = <<1, 2, 2, 1>>
  /\ lastVerdicts = <<"no", "yes", "no", "yes">>
  /\ documents = <<2, 1>>

\* C9: when the completion call of ExplainJargon raises, the run does not
\* fail there: the jargon mapping is empty and Generate is next or has run.
C9_JargonCallFailureIsCaught ==
  ("explain_jargon" \in raised) =>
    /\ failedNode # "explain_jargon"
    /\ jargon_dict = EmptyDict
    /\ Count(events, "explain_jargon") = 1

\* C10: when the reply to the jargon prompt carries no mapping, the jargon
\* mapping is empty (null counted as empty) and no exception escapes
\* ExplainJargon or Generate because of it.
C10_MalformedReplyGivesEmptyMapping ==
  (jargonReply = "no_mapping") =>
    /\ StateGetJargon(jargon_dict) \in {EmptyDict, JsonValue("NULL")}
    /\ ~(pc = "FAILED" /\ failedNode \notin raised)

\* out can be read from inp at strictly increasing positions
IsSubsequence(out, inp) ==
  \E f \in [1..Len(out) -> 1..Len(inp)] :
     /\ \A i, j \in 1..Len(out) : i < j => f[i] < f[j]
     /\ \A j \in 1..Len(out) : out[j] = inp[f[j]]

\* the stages whose failure has no local fallback
FatalStages == {"retrieve", "rewrite_query", "generate_answer"}

\* C11: the jargon mapping of the execution state is always a flat mapping
\* (or null, counted as empty) whose terms and definitions are non-empty
\* strings.
C11_JargonMappingWellFormed ==
  LET jd == StateGetJargon(jargon_dict)
  IN /\ jd.t \in {"dict", "none"}
     /\ \A entry \in jd.items : entry[1] # "" /\ entry[2] # ""

\* C12: ExplainJargon executes at most once; the jargon mapping is written
\* at most once, by ExplainJargon only, and once it is written no Rewrite
\* or Retrieve follows.
C12_JargonWrittenOnce ==
  [][/\ Count(Started', "explain_jargon") <= 1
     /\ (jargon_dict' # jargon_dict =>
           pc = "explain_jargon" /\ jargon_dict = NoJargon)
     /\ (jargon_dict' # NoJargon =>
           pc' \in {"generate_answer", "END", "FAILED"})
    ]_vars

C12_Witness ==
  /\ pc = "END"
  /\ jargon_dict # NoJargon
  /\ Count(events, "explain_jargon") = 1
  /\ Count(events, "rewrite_query") = 3

\* C13: when the retrieval call or the completion call of Rewrite or
\* Generate raises, the run is aborted there: no later node runs, there is
\* no generation, and what the caller surfaces tells the failed stage apart
\* from every other stage.
C13_FatalFailureNamesStage ==
  (raised \cap FatalStages # {}) =>
    /\ pc = "FAILED"
    /\ status = "error"
    /\ failedNode \in raised
    /\ generation = Unset
    /\ final_answer = ""
    /\ \A n \in Nodes \ {failedNode} :
          ErrorShown(driver, CallError(n)) # shownError

\* C14: the caller can tell a run that exhausted the retry budget from a
\* failed run: the first ends complete, with a Generate event last and the
\* apology as generation; the second ends in error, without a Generate
\* event and without a generation.
C14_ExhaustionIsNotFailure ==
  /\ (RunOver /\ hit.at = 0 /\ Count(events, "grade_documents") = MaxLoops + 1) =>
        /\ status = "complete"
        /\ shownError = NoError
        /\ Last(events) = "generate_answer"
        /\ generation = FALLBACK
  /\ (status = "error") =>
        /\ pc = "FAILED"
        /\ shownError # NoError
        /\ Count(events, "generate_answer") = 0
        /\ generation = Unset
  /\ (status = "complete") =>
        /\ pc = "END"
        /\ shownError = NoError
        /\ Last(events) = "generate_answer"
        /\ generation # Unset

C14_Witness ==
  /\ status = "complete"
  /\ generation = FALLBACK
  /\ loop_count = MaxLoops
  /\ driver = "app"
  /\ final_answer = FALLBACK

\* C15: the stream has exactly one output per completed node, in execution
\* order, carrying the node's name and its state patch (the state changes
\* in the keys of the patch, to the values of the patch, and in no other
\* key); a node that raises yields none; a completed run ends with the
\* Generate output and nothing is yielded after the run is over.
C15_OneEventPerCompletedNode ==
  [][/\ (events' # events =>
           /\ pc \in Nodes
           /\ events' = Append(events, pc)
           /\ DOMAIN lastPatch' \subseteq StateKeys
           /\ \A k \in StateKeys :
                IF k \in DOMAIN lastPatch'
                THEN StateRec'[k] = lastPatch'[k]
                ELSE StateRec'[k] = StateRec[k])
     /\ (events' = events => (pc' = "FAILED" /\ StateRec' = StateRec))
     /\ (pc' = "END" => events'[Len(events')] = "generate_answer")
     /\ ~RunOver
     /\ Len(events') <= 3 * MaxLoops + 4
    ]_vars

C15_Witness ==
  /\ pc = "END"
  /\ Len(events) = 12
  /\ events[11] = "grade_documents"
  /\ lastPatch = [generation |-> FALLBACK]

\* C17: loop_count never decreases; a Rewrite that completes raises it by
\* exactly 1 and leaves documents as they are; no other step changes it.
C17_LoopCountOnlyByRewrite ==
  [][/\ loop_count' >= loop_count
     /\ ((pc = "rewrite_query" /\ events' # events) =>
           loop_count' = loop_count + 1 /\ documents' = documents)
     /\ ((pc # "rewrite_query" \/ events' = events) =>
           loop_count' = loop_count)
    ]_vars

C17_Witness ==
  /\ events # <<>>
  /\ Last(events) = "rewrite_query"
  /\ loop_count = 2

\* C18: every rewrite request is built from the question the run was
\* started with.
C18_RewriteFromOriginalQuestion ==
  rewritePrompt \in {Unset, InitialQuestion}

\* C19: a Retrieve that completes stores the retriever's result as it is
\* (at most 4 passages) and leaves question, loop_count, generation and
\* the jargon mapping unchanged.
C19_RetrieveStoresResult ==
  [][(pc = "retrieve" /\ events' # events) =>
       /\ documents' = lastRetrieved'
       /\ Len(documents') <= 4
       /\ question' = question
       /\ loop_count' = loop_count
       /\ generation' = generation
       /\ jargon_dict' = jargon_dict
    ]_vars

C19_Witness ==
  /\ events # <<>>
  /\ Last(events) = "retrieve"
  /\ loop_count = 1
  /\ documents = <<2, 1, 1, 2>>

\* C20: documents is always a subsequence of the result of the most recent
\* Retrieve, so it never holds more than 4 passages.
C20_DocumentsFromLatestRetrieve ==
  /\ IsSubsequence(documents, lastRetrieved)
  /\ Len(documents) <= 4

C20_Witness ==
  /\ events # <<>>
  /\ Last(events) = "grade_documents"
  /\ loop_count = 2
  /\ lastRetrieved = <<1, 2, 1>>
  /\ documents = <<2>>

\* C16: of two runs through the same compiled graph, each starts with its
\* own question, loop_count = 0, no documents, no generation and no jargon,
\* and every step changes the execution state of one run only.
C16_RunsDoNotShareState ==
  [][\E r \in RunIds :
        /\ \A o \in RunIds \ {r} : runs'[o] = runs[o]
        /\ runs[r].pc = "idle" =>
             /\ runs'[r].pc = "retrieve"
             /\ runs'[r].question \in RunQuestions
             /\ runs'[r].loop_count = 0
             /\ runs'[r].documents = <<>>
             /\ runs'[r].generation = Unset
             /\ runs'[r].jargon_dict = NoJargon
    ]_vars

C16_Witness ==
  /\ runs["a"].pc = "grade_documents"
  /\ runs["a"].loop_count = 2
  /\ runs["a"].question = "r1"
  /\ runs["b"].pc = "retrieve"
  /\ runs["b"].loop_count = 0
  /\ runs["b"].question = "q1"

\* C21: generation is unset in every state of a run before Generate
\* completes, only Generate writes it, and a completed run has written it
\* exactly once, with the last node of the run.
C21_GenerationWrittenOnceAtEnd ==
  /\ [](generation # Unset =>
          /\ pc = "END"
          /\ Last(events) = "generate_answer")
  /\ [](pc = "END" =>
          /\ generation # Unset
          /\ Count(events, "generate_answer") = 1)
  /\ [][generation' # generation =>
          /\ pc = "generate_answer"
          /\ generation = Unset
          /\ pc' = "END"
          /\ events' = Append(events, "generate_answer")]_vars

C21_Witness ==
  /\ pc = "END"
  /\ generation = "answer"
  /\ Count(events, "retrieve") = 2
  /\ Count(events, "generate_answer") = 1

\* C22: the run starts in Retrieve, and whenever a node with an
\* unconditional edge completes, the node of that edge is the next to run:
\* Grade after Retrieve, Retrieve after Rewrite, Generate after
\* ExplainJargon, the terminal state after Generate.
C22_UnconditionalTransitions ==
  /\ [](events = <<>> /\ ~RunOver => pc = "retrieve")
  /\ [][events' # events =>
          LET n == Last(events')
          IN /\ n = "retrieve" => pc' = "grade_documents"
             /\ n = "rewrite_query" => pc' = "retrieve"
             /\ n = "explain_jargon" => pc' = "generate_answer"
             /\ n = "generate_answer" => pc' = "END"]_vars

\* C23: within one run at most one node is scheduled at any time, and it
\* is the node that runs next; when the run is over none is.
C23_OneNodeAtATime ==
  /\ Cardinality(active) <= 1
  /\ pc \in Nodes => active = {pc}
  /\ pc \notin Nodes => active = {}

C23_Witness ==
  /\ active = {"generate_answer"}
  /\ Last(events) = "explain_jargon"
  /\ loop_count = 1

\* C24: an answer completion request is issued only with a non-empty
\* documents list; Generate takes the fallback path exactly when it is
\* reached from Grade and the synthesis path exactly when it is reached
\* through ExplainJargon; (documents empty, loop_count < 3) never reaches
\* Generate.
C24_SynthesisOnlyWithDocuments ==
  /\ calls.answer > 0 => documents # <<>>
  /\ pc = "generate_answer" =>
       /\ ~(documents = <<>> /\ loop_count < 3)
       /\ Last(events) \in {"grade_documents", "explain_jargon"}
       /\ Last(events) = "grade_documents" <=>
            (documents = <<>> /\ loop_count >= 3)
       /\ Last(events) = "explain_jargon" <=> documents # <<>>
  /\ generation = FALLBACK =>
       events[Len(events) - 1] = "grade_documents"
  /\ generation \notin {Unset, FALLBACK} =>
       events[Len(events) - 1] = "explain_jargon"

C24_Witness ==
  /\ pc = "END"
  /\ calls.answer = 1
  /\ generation = "answer"
  /\ loop_count = 3
  /\ Len(documents) = K

\* C25: one run issues at most 4 retrieval calls, at most 4 grading passes
\* of at most 4 classification requests each, at most 3 rewrite requests,
\* at most 1 jargon request and at most 1 answer request; after a call has
\* failed no further call is issued.
C25_ExternalCallsBounded ==
  /\ [](/\ calls.retrieve <= 4
        /\ calls.retrieve <= 1 + calls.rewrite
        /\ Count(Started, "grade_documents") <= 4
        /\ ClassifyRequests(lastVerdicts) <= 4
        /\ calls.rewrite <= 3
        /\ calls.jargon <= 1
        /\ calls.answer <= 1)
  /\ [][raised # {} => UNCHANGED <<calls, lastVerdicts>>]_vars

C25_Witness ==
  /\ pc = "END"
  /\ calls.retrieve = 4
  /\ calls.rewrite = 3
  /\ Count(events, "grade_documents") = 4
  /\ ClassifyRequests(lastVerdicts) = 4
  /\ calls.jargon = 0
  /\ calls.answer = 0

\* C26: the message history holds, for each question, one user message
\* followed by at most one assistant message; a completed run appends one
\* assistant message with the run's answer and jargon, an aborted run
\* appends none, and earlier entries are never changed.
C26_HistoryPerQuestion ==
  /\ [](\A i \in 1..Len(messages) :
          messages[i].role = "assistant" =>
             /\ i > 1
             /\ messages[i - 1].role = "user")
  /\ [][messages' # messages =>
          LET n == Len(messages)
          IN /\ SubSeq(messages', 1, n) = messages
             /\ messages'[n + 1] = [role |-> "user",
                                    content |-> lastRun'.prompt,
                                    jargon |-> EmptyDict]
             /\ lastRun'.status = "complete" =>
                  /\ Len(messages') = n + 2
                  /\ messages'[n + 2] =
                       [role |-> "assistant",
                        content |-> lastRun'.generation,
                        jargon |-> IF Truthy(lastRun'.jargon_dict)
                                   THEN lastRun'.jargon_dict
                                   ELSE EmptyDict]
             /\ lastRun'.status # "complete" => Len(messages') = n + 1]_vars

C26_Witness ==
  /\ Len(messages) = 3
  /\ messages[2].role = "assistant"
  /\ messages[2].content = "answer"
  /\ Truthy(messages[2].jargon)
  /\ messages[3].role = "user"
  /\ lastRun.status = "error"

\* C27: the metadata parsed from the path of a saved document has the
\* ticker, year, quarter and form type the document was saved with.
C27_FilenameRoundTrip ==
  metadata # NoMetadata =>
    /\ metadata.Ticker = saved.ticker
    /\ metadata.Year = saved.year
    /\ metadata.Quarter = saved.quarter
    /\ metadata.Form_Type = saved.form_type

====
